---- MODULE Spec2Model ----
(***************************************************************************)
(* Identity reconciliation of lebrely-backend: the local "users" table,    *)
(* the external identity provider's accounts, and the request handlers     *)
(* (sign_up, sign_in, get_current_user, the /users endpoints) that keep    *)
(* the two in step.  Each request runs in its own database session; a      *)
(* step of a request is one round trip to the database or to the provider. *)
(***************************************************************************)
EXTENDS Integers, FiniteSets, Sequences, TLC

\* ----------------------------------------------------------------- bounds
MaxOps == 3                    \* operations (requests, registrations) in a run

\* ------------------------------------------------------------- constants
HTTP_200_OK == 200
HTTP_201_CREATED == 201
HTTP_400_BAD_REQUEST == 400
HTTP_401_UNAUTHORIZED == 401
NoId == 0                      \* a missing / falsy local_user_id

Procs == {"r1", "r2"}          \* requests in flight at the same time
Emails == {"a", "b"}
Names == {"n"}
None == "None"                 \* Python None of a string-valued field
Unknown == "Unknown"           \* placeholder display name of sign_in
Ids == 1..MaxOps

\* The provider gives every account its own id (one account per email).
ExternalId(e) == "uid-" \o e

\* ----------------------------------------------------------- the records
\* models.user.User: a row of the users table.
User(id, sup, name, email, active) ==
    [id |-> id, supabase_user_id |-> sup, name |-> name, email |-> email,
     is_active |-> active]

NoUser == User(NoId, None, None, None, FALSE)

\* An account at the external provider: its id and its user_metadata
\* (local_user_id and name keys; NoId / None when the key is absent).
\* user_metadata is "dict" for a dictionary, empty or not, and None when the
\* provider's user object carries no metadata at all.
Account(uid, hint, name) ==
    [id |-> uid, local_user_id |-> hint, name |-> name, user_metadata |-> "dict"]

AccountNoMetadata(uid) ==
    [id |-> uid, local_user_id |-> NoId, name |-> None, user_metadata |-> None]

NoAccount == Account(None, NoId, None)

\* The provider's response to sign_up / sign_in_with_password / get_user.
NoResponse == [user |-> NoAccount, session |-> FALSE]

NoRequest == [kind |-> None, email |-> None, name |-> None]

NoError == "ok"

\* What the HTTP client gets back.
Result(status, detail, user, ecr, tokens, path) ==
    [status |-> status, detail |-> detail, user |-> user,
     email_confirmation_required |-> ecr, tokens |-> tokens, path |-> path]

NoResult == Result(NoId, NoError, NoUser, FALSE, FALSE, None)

VARIABLES
    users,      \* committed rows of the users table
    nextId,     \* the table's serial sequence
    ext,        \* external provider: email -> Account (NoAccount if none)
    pc,         \* where each request is
    req,        \* the request each process serves
    resp,       \* the provider's response held by the request
    pending,    \* row inserted (flushed) in the request's open transaction
    res,        \* the HTTP result of the request
    orphan,     \* history: email -> "missing" once a sign_up for it failed
                \*   after the provider call succeeded, "recovered" once a
                \*   sign_in for it succeeded after that, "no" before
    race,       \* history: the request ran alongside a rival for its email
    served      \* the number of operations started so far

vars == <<users, nextId, ext, pc, req, resp, pending, res, orphan, race, served>>

\* ------------------------------------------------------------ the storage
\* The unique constraints of the users table, checked by the storage layer
\* when `row` is written next to the committed rows `store`: the name of the
\* violated column, or NoError.
IntegrityErrorNoEmail(store, row) ==
    IF row.supabase_user_id # None
       /\ \E r \in store : r.id # row.id /\ r.supabase_user_id = row.supabase_user_id
    THEN "IntegrityError:supabase_user_id"
    ELSE NoError

IntegrityErrorNoSupabaseId(store, row) ==
    IF \E r \in store : r.id # row.id /\ r.email = row.email
    THEN "IntegrityError:email"
    ELSE NoError

IntegrityError(store, row) ==
    IF \E r \in store : r.id # row.id /\ r.email = row.email
    THEN "IntegrityError:email"
    ELSE IF row.supabase_user_id # None
            /\ \E r \in store : r.id # row.id /\ r.supabase_user_id = row.supabase_user_id
         THEN "IntegrityError:supabase_user_id"
         ELSE NoError

\* A write of a row with this email waits while another open transaction
\* holds an uncommitted row with the same email (unique index on email).
Locked(p, email) ==
    \E q \in Procs \ {p} : pending[q] # NoUser /\ pending[q].email = email

\* scalar_one_or_none() of the three selects.
get_user_by_id(store, id) ==
    IF \E r \in store : r.id = id THEN CHOOSE r \in store : r.id = id ELSE NoUser

get_user_by_email(store, email) ==
    IF \E r \in store : r.email = email
    THEN CHOOSE r \in store : r.email = email ELSE NoUser

get_user_by_supabase_id_miss(store, uid) == NoUser

get_user_by_supabase_id(store, uid) ==
    IF \E r \in store : r.supabase_user_id = uid
    THEN CHOOSE r \in store : r.supabase_user_id = uid ELSE NoUser

\* An UPDATE of one row followed by COMMIT: the new table, the row as read
\* back, and the error raised (table unchanged when the constraint fails).
Written(store, user, err) == [users |-> store, user |-> user, err |-> err]

CommitUpdate(store, old, new) ==
    IF IntegrityError(store \ {old}, new) # NoError
    THEN Written(store, NoUser, IntegrityError(store \ {old}, new))
    ELSE Written((store \ {old}) \cup {new}, new, NoError)

\* An INSERT of one row followed by COMMIT.
CommitInsert(store, new) ==
    IF IntegrityError(store, new) # NoError
    THEN Written(store, NoUser, IntegrityError(store, new))
    ELSE Written(store \cup {new}, new, NoError)

\* ------------------------------------------------------- the HTTP results
\* AuthService.sign_up: every exception, its own HTTPException included,
\* leaves as HTTP 400 "Registration failed: <exception>".
sign_up_except_401(detail) ==
    Result(HTTP_401_UNAUTHORIZED, detail, NoUser, FALSE, FALSE, None)

sign_up_except(detail) ==
    Result(HTTP_400_BAD_REQUEST, detail, NoUser, FALSE, FALSE, None)

\* POST /signup: 201 with the tokens of the session, or, when the provider
\* returned no session, 201 with email_confirmation_required and no tokens.
sign_up_endpoint_no_flag(user, session) ==
    Result(HTTP_201_CREATED, NoError, user, FALSE, session, None)

sign_up_endpoint(user, session) ==
    IF session
    THEN Result(HTTP_201_CREATED, NoError, user, FALSE, TRUE, None)
    ELSE Result(HTTP_201_CREATED, NoError, user, TRUE, FALSE, None)

\* ----------------------------------------------------------- bookkeeping
InFlight(q) == pc[q] \notin {"idle", "done"}

\* The requests of the same kind for the same email that are in flight.
Rivals(p, kind, email) ==
    {q \in Procs \ {p} : InFlight(q) /\ req[q].kind = kind /\ req[q].email = email}

\* get_db closes the session of a request that ends: the open transaction
\* is rolled back, so the row it had flushed is not in the table.
session_close_persists(store, row) ==
    IF row = NoUser THEN store ELSE store \cup {row}

session_close(store, row) == store

\* The request of p ends with result r; get_db closes the session, which
\* rolls back whatever the transaction had not committed.
Finish(p, r) ==
    /\ pc' = [pc EXCEPT ![p] = "done"]
    /\ res' = [res EXCEPT ![p] = r]
    /\ pending' = [pending EXCEPT ![p] = NoUser]

\* The response is sent and the worker is free again.
Respond(p) ==
    /\ UNCHANGED served
    /\ pc[p] = "done"
    /\ pc' = [pc EXCEPT ![p] = "idle"]
    /\ req' = [req EXCEPT ![p] = NoRequest]
    /\ resp' = [resp EXCEPT ![p] = NoResponse]
    /\ res' = [res EXCEPT ![p] = NoResult]
    /\ race' = [race EXCEPT ![p] = FALSE]
    /\ UNCHANGED <<users, nextId, ext, pending, orphan>>

\* ------------------------------------------------------ AuthService.sign_up
\* POST /signup arrives: UserCreate(name=name, email=email) validates the
\* name (a missing name is a ValidationError) before anything is written.
StartSignUp(p, email, name) ==
    /\ pc[p] = "idle"
    /\ served < MaxOps
    /\ served' = served + 1
    /\ req' = [req EXCEPT ![p] = [kind |-> "signup", email |-> email, name |-> name]]
    /\ IF name = None
       THEN /\ Finish(p, sign_up_except("ValidationError"))
            /\ UNCHANGED <<users, nextId, ext, resp, orphan, race>>
       ELSE /\ pc' = [pc EXCEPT ![p] = "su_flush"]
            /\ race' = [q \in Procs |->
                           IF q = p THEN Rivals(p, "signup", email) # {}
                           ELSE race[q] \/ q \in Rivals(p, "signup", email)]
            /\ UNCHANGED <<users, nextId, ext, resp, pending, res, orphan>>

\* db.add(local_user); flush(); refresh(): the INSERT, in the open transaction.
SignUpFlush(p) ==
    LET email == req[p].email
        row == User(nextId, None, req[p].name, email, TRUE)
    IN
    /\ UNCHANGED served
    /\ pc[p] = "su_flush"
    /\ IF IntegrityError(users, row) # NoError
       THEN /\ Finish(p, sign_up_except(IntegrityError(users, row)))
            /\ UNCHANGED <<users, nextId, ext, req, resp, orphan, race>>
       ELSE /\ ~Locked(p, email)
            /\ pending' = [pending EXCEPT ![p] = row]
            /\ nextId' = nextId + 1
            /\ pc' = [pc EXCEPT ![p] = "su_ext"]
            /\ UNCHANGED <<users, ext, req, resp, res, orphan, race>>

\* supabase_client.auth.sign_up(...) with local_user_id in the metadata.
SignUpExternal(p) ==
    LET email == req[p].email
        account == Account(ExternalId(email), pending[p].id, req[p].name)
    IN
    /\ UNCHANGED served
    /\ pc[p] = "su_ext"
    /\ \/ /\ Finish(p, sign_up_except("AuthApiError"))
          /\ users' = session_close(users, pending[p])
          /\ UNCHANGED <<nextId, ext, req, resp, orphan, race>>
       \/ /\ ext[email] = NoAccount
          /\ Finish(p, sign_up_except("HTTPException"))
          /\ users' = session_close(users, pending[p])
          /\ UNCHANGED <<nextId, ext, req, resp, orphan, race>>
       \/ /\ ext[email] = NoAccount
          /\ \E session \in BOOLEAN :
                resp' = [resp EXCEPT ![p] = [user |-> account, session |-> session]]
          /\ ext' = [ext EXCEPT ![email] = account]
          /\ pc' = [pc EXCEPT ![p] = "su_commit"]
          /\ UNCHANGED <<users, nextId, req, pending, res, orphan, race>>

\* local_user.supabase_user_id = response.user.id; commit(); refresh();
\* then the endpoint builds the SignUpResponse.
SignUpCommit(p) ==
    LET email == req[p].email
        row == [pending[p] EXCEPT !.supabase_user_id = resp[p].user.id]
        w == CommitInsert(users, row)
    IN
    /\ UNCHANGED served
    /\ pc[p] = "su_commit"
    /\ \E reachable \in BOOLEAN :
          IF ~reachable
          THEN /\ Finish(p, sign_up_except("OperationalError"))
               /\ users' = session_close(users, pending[p])
               /\ orphan' = [orphan EXCEPT ![email] = "missing"]
               /\ UNCHANGED <<nextId, ext, req, resp, race>>
          ELSE IF w.err # NoError
          THEN /\ Finish(p, sign_up_except(w.err))
               /\ users' = session_close(users, pending[p])
               /\ orphan' = [orphan EXCEPT ![email] = "missing"]
               /\ UNCHANGED <<nextId, ext, req, resp, race>>
          ELSE /\ users' = w.users
               /\ Finish(p, sign_up_endpoint(w.user, resp[p].session))
               /\ UNCHANGED <<nextId, ext, req, resp, orphan, race>>

\* ------------------------------------------------------ AuthService.sign_in
\* An HTTPException raised inside sign_in leaves with its own status; any
\* other exception leaves as HTTP 401 "Login failed: <exception>".
HTTPException(status, detail) == Result(status, detail, NoUser, FALSE, FALSE, None)

sign_in_except(detail) ==
    Result(HTTP_401_UNAUTHORIZED, detail, NoUser, FALSE, FALSE, None)

\* POST /signin: 200 with the tokens and the local user.
sign_in_endpoint(user, path) == Result(HTTP_200_OK, NoError, user, FALSE, TRUE, path)

\* `response.user.user_metadata` is truthy and carries a truthy local_user_id.
HasHint(account) ==
    /\ account.user_metadata # None
    /\ account.local_user_id # NoId \/ account.name # None
    /\ account.local_user_id # NoId

FinishSignIn(p, email, r) ==
    /\ Finish(p, r)
    /\ orphan' = [orphan EXCEPT ![email] =
                     IF r.status = HTTP_200_OK /\ @ = "missing" THEN "recovered" ELSE @]

\* Step 2: the row the metadata hint names gets the external id.
attach_by_hint_no_commit(store, local_user, uid) ==
    Written(store, [local_user EXCEPT !.supabase_user_id = uid], NoError)

attach_by_hint(store, local_user, uid) ==
    CommitUpdate(store, local_user, [local_user EXCEPT !.supabase_user_id = uid])

\* POST /signin: sign_in_with_password, then step 1 (the lookup by external
\* id) and step 2 (the lookup by the metadata hint, which links and commits).
StartSignIn(p, email) ==
    LET account == ext[email]
        by_sup == get_user_by_supabase_id(users, account.id)
        by_hint == get_user_by_id(users, account.local_user_id)
        w == attach_by_hint(users, by_hint, account.id)
    IN
    /\ pc[p] = "idle"
    /\ served < MaxOps
    /\ served' = served + 1
    /\ req' = [req EXCEPT ![p] = [kind |-> "signin", email |-> email, name |-> None]]
    /\ UNCHANGED <<nextId, ext, race>>
    /\ \/ /\ FinishSignIn(p, email, sign_in_except("AuthApiError"))
          /\ UNCHANGED <<users, resp>>
       \/ /\ FinishSignIn(p, email, HTTPException(HTTP_401_UNAUTHORIZED, "Invalid credentials"))
          /\ UNCHANGED <<users, resp>>
       \/ /\ account # NoAccount
          /\ resp' = [resp EXCEPT ![p] = [user |-> account, session |-> TRUE]]
          /\ IF by_sup # NoUser
             THEN /\ FinishSignIn(p, email, sign_in_endpoint(by_sup, "external_id"))
                  /\ UNCHANGED users
             ELSE IF ~HasHint(account) \/ by_hint = NoUser
             THEN /\ pc' = [pc EXCEPT ![p] = "si_email"]
                  /\ UNCHANGED <<users, pending, res, orphan>>
             ELSE IF w.err # NoError
             THEN /\ FinishSignIn(p, email, sign_in_except(w.err))
                  /\ UNCHANGED users
             ELSE /\ users' = w.users
                  /\ FinishSignIn(p, email, sign_in_endpoint(w.user, "hint"))

\* UserService.link_supabase_user(email, supabase_user_id)
link_supabase_user_as_new_row(store, email, uid) ==
    LET db_user == get_user_by_email(store, email) IN
    IF db_user = NoUser THEN Written(store, NoUser, NoError)
    ELSE Written(store \cup {[db_user EXCEPT !.supabase_user_id = uid]},
                 [db_user EXCEPT !.supabase_user_id = uid], NoError)

link_supabase_user(store, email, uid) ==
    LET db_user == get_user_by_email(store, email) IN
    IF db_user = NoUser THEN Written(store, NoUser, NoError)
    ELSE CommitUpdate(store, db_user, [db_user EXCEPT !.supabase_user_id = uid])

\* The display name of the record sign_in creates: .get("name", "Unknown")
\* of a metadata dictionary (of None the call raises AttributeError).
metadata_name(account) == IF account.name # None THEN account.name ELSE Unknown

\* Step 3: get_user_by_email(email), and link the row found.
SignInByEmail(p) ==
    LET email == req[p].email
        local_user == get_user_by_email(users, email)
        w == link_supabase_user(users, email, resp[p].user.id)
    IN
    /\ UNCHANGED served
    /\ pc[p] = "si_email"
    /\ IF local_user = NoUser /\ resp[p].user.user_metadata = None
       THEN /\ FinishSignIn(p, email, sign_in_except("AttributeError"))
            /\ UNCHANGED <<users, nextId, ext, req, resp, race>>
       ELSE IF local_user = NoUser
       THEN /\ pc' = [pc EXCEPT ![p] = "si_check"]
            /\ req' = [req EXCEPT ![p].name = metadata_name(resp[p].user)]
            /\ UNCHANGED <<users, nextId, ext, resp, pending, res, orphan, race>>
       ELSE IF w.err # NoError
       THEN /\ FinishSignIn(p, email, sign_in_except(w.err))
            /\ UNCHANGED <<users, nextId, ext, req, resp, race>>
       ELSE /\ users' = w.users
            /\ FinishSignIn(p, email, sign_in_endpoint(w.user, "email"))
            /\ UNCHANGED <<nextId, ext, req, resp, race>>

\* Step 4, UserService.create_user: the two lookups before the insert.
create_user_check(store, email, uid) ==
    IF get_user_by_email(store, email) # NoUser
    THEN "User with this email already exists"
    ELSE IF get_user_by_supabase_id(store, uid) # NoUser
         THEN "User with this Supabase ID already exists"
         ELSE NoError

SignInCreateCheck(p) ==
    LET email == req[p].email
        err == create_user_check(users, email, resp[p].user.id)
        rivals == {q \in Rivals(p, "signin", email) : pc[q] = "si_insert"}
    IN
    /\ UNCHANGED served
    /\ pc[p] = "si_check"
    /\ IF err # NoError
       THEN /\ FinishSignIn(p, email, HTTPException(HTTP_400_BAD_REQUEST, err))
            /\ UNCHANGED <<users, nextId, ext, req, resp, race>>
       ELSE /\ pc' = [pc EXCEPT ![p] = "si_insert"]
            /\ race' = [q \in Procs |->
                           IF q = p THEN rivals # {} ELSE race[q] \/ q \in rivals]
            /\ UNCHANGED <<users, nextId, ext, req, resp, pending, res, orphan>>

\* Step 4, UserService.create_user: db.add(db_user); commit(); refresh().
create_user_insert_no_commit(store, id, name, email, uid) ==
    Written(store, User(id, uid, name, email, TRUE), NoError)

create_user_insert_unlinked(store, id, name, email, uid) ==
    CommitInsert(store, User(id, None, name, email, TRUE))

create_user_insert(store, id, name, email, uid) ==
    CommitInsert(store, User(id, uid, name, email, TRUE))

SignInInsert(p) ==
    LET email == req[p].email
        w == create_user_insert(users, nextId, req[p].name, email, resp[p].user.id)
    IN
    /\ UNCHANGED served
    /\ pc[p] = "si_insert"
    /\ IF w.err # NoError
       THEN /\ FinishSignIn(p, email, sign_in_except(w.err))
            /\ UNCHANGED <<users, nextId, ext, req, resp, race>>
       ELSE /\ ~Locked(p, email)
            /\ users' = w.users
            /\ nextId' = nextId + 1
            /\ FinishSignIn(p, email, sign_in_endpoint(w.user, "create"))
            /\ UNCHANGED <<ext, req, resp, race>>

\* --------------------------------------------- AuthService.get_current_user
\* Any exception that is no HTTPException leaves as HTTP 401
\* "Authentication failed: <exception>".
get_current_user_except(detail) ==
    Result(HTTP_401_UNAUTHORIZED, detail, NoUser, FALSE, FALSE, None)

\* GET /me: 200 with the local user.
get_current_user_info(user, path) ==
    Result(HTTP_200_OK, NoError, user, FALSE, FALSE, path)

\* GET /me with the access token of the account of `email`: the lookup by
\* external id, then by the metadata hint (which links the row found).
GetCurrentUser(p, email) ==
    LET account == ext[email]
        by_sup == get_user_by_supabase_id(users, account.id)
        by_hint == get_user_by_id(users, account.local_user_id)
        w == attach_by_hint(users, by_hint, account.id)
    IN
    /\ pc[p] = "idle"
    /\ served < MaxOps
    /\ served' = served + 1
    /\ req' = [req EXCEPT ![p] = [kind |-> "me", email |-> email, name |-> None]]
    /\ UNCHANGED <<nextId, ext, resp, orphan, race>>
    /\ \/ /\ Finish(p, get_current_user_except("AuthApiError"))
          /\ UNCHANGED users
       \/ /\ account # NoAccount
          /\ IF by_sup # NoUser
             THEN /\ Finish(p, get_current_user_info(by_sup, "external_id"))
                  /\ UNCHANGED users
             ELSE IF ~HasHint(account) \/ by_hint = NoUser
             THEN /\ Finish(p, HTTPException(HTTP_401_UNAUTHORIZED,
                                             "User not found in local database"))
                  /\ UNCHANGED users
             ELSE IF w.err # NoError
             THEN /\ Finish(p, get_current_user_except(w.err))
                  /\ UNCHANGED users
             ELSE /\ users' = w.users
                  /\ Finish(p, get_current_user_info(w.user, "hint"))

\* ----------------------------------------------------- AuthService.sign_out
\* Every exception of set_session / sign_out leaves as HTTP 400
\* "Sign out failed: <exception>".
sign_out_except(detail) ==
    Result(HTTP_400_BAD_REQUEST, detail, NoUser, FALSE, FALSE, None)

\* POST /signout: 200 with the message.
sign_out_endpoint(message) == Result(HTTP_200_OK, NoError, NoUser, FALSE, FALSE, message)

\* POST /signout with the bearer token of the account of `email`; the
\* provider rejects the token (expired, invalid, no such account) or accepts.
SignOut(p, email) ==
    /\ pc[p] = "idle"
    /\ served < MaxOps
    /\ served' = served + 1
    /\ req' = [req EXCEPT ![p] = [kind |-> "signout", email |-> email, name |-> None]]
    /\ UNCHANGED <<users, nextId, ext, resp, orphan, race>>
    /\ \/ Finish(p, sign_out_except("AuthApiError"))
       \/ /\ ext[email] # NoAccount
          /\ Finish(p, sign_out_endpoint("Successfully signed out"))

\* ------------------------------------------------ AuthService.refresh_token
\* Every exception, the HTTPException for a missing session included,
\* leaves as HTTP 401 "Token refresh failed: <exception>".
refresh_token_except(detail) ==
    Result(HTTP_401_UNAUTHORIZED, detail, NoUser, FALSE, FALSE, None)

\* POST /refresh: 200 with the new tokens and the local user.
refresh_token_endpoint(user, path) ==
    Result(HTTP_200_OK, NoError, user, FALSE, TRUE, path)

\* POST /refresh with a refresh token of the account of `email`:
\* refresh_session, then get_current_user with the new access token.
RefreshToken(p, email) ==
    LET account == ext[email]
        by_sup == get_user_by_supabase_id(users, account.id)
        by_hint == get_user_by_id(users, account.local_user_id)
        w == attach_by_hint(users, by_hint, account.id)
    IN
    /\ pc[p] = "idle"
    /\ served < MaxOps
    /\ served' = served + 1
    /\ req' = [req EXCEPT ![p] = [kind |-> "refresh", email |-> email, name |-> None]]
    /\ UNCHANGED <<nextId, ext, resp, orphan, race>>
    /\ \/ /\ Finish(p, refresh_token_except("AuthApiError"))
          /\ UNCHANGED users
       \/ /\ Finish(p, refresh_token_except("HTTPException"))
          /\ UNCHANGED users
       \/ /\ account # NoAccount
          /\ IF by_sup # NoUser
             THEN /\ Finish(p, refresh_token_endpoint(by_sup, "external_id"))
                  /\ UNCHANGED users
             ELSE IF ~HasHint(account) \/ by_hint = NoUser
             THEN /\ Finish(p, HTTPException(HTTP_401_UNAUTHORIZED,
                                             "User not found in local database"))
                  /\ UNCHANGED users
             ELSE IF w.err # NoError
             THEN /\ Finish(p, get_current_user_except(w.err))
                  /\ UNCHANGED users
             ELSE /\ users' = w.users
                  /\ Finish(p, refresh_token_endpoint(w.user, "hint"))

\* ------------------------------------------------------ the /users endpoints
\* POST /users/: the email check, the insert and the commit.
create_user(email, name) ==
    /\ served < MaxOps
    /\ served' = served + 1
    /\ get_user_by_email(users, email) = NoUser
    /\ ~Locked("users", email)
    /\ users' = users \cup {User(nextId, None, name, email, TRUE)}
    /\ nextId' = nextId + 1
    /\ UNCHANGED <<ext, pc, req, resp, pending, res, orphan, race>>

\* PUT /users/{user_id} and UserService.update_user: setattr of the fields
\* given, then commit (a constraint violation leaves the table unchanged).
UpdateData ==
    [field : {"email"}, value : Emails] \cup [field : {"name"}, value : Names]
      \cup [field : {"is_active"}, value : {"True", "False"}]

Updated(db_user, d) ==
    IF d.field = "email" THEN [db_user EXCEPT !.email = d.value]
    ELSE IF d.field = "name" THEN [db_user EXCEPT !.name = d.value]
    ELSE [db_user EXCEPT !.is_active = (d.value = "True")]

update_user(user_id, d) ==
    LET db_user == get_user_by_id(users, user_id) IN
    /\ served < MaxOps
    /\ served' = served + 1
    /\ db_user # NoUser
    /\ d.field = "email" => ~Locked("users", d.value)
    /\ users' = CommitUpdate(users, db_user, Updated(db_user, d)).users
    /\ UNCHANGED <<nextId, ext, pc, req, resp, pending, res, orphan, race>>

\* UserService.delete_user: soft delete.
delete_user(user_id) ==
    LET db_user == get_user_by_id(users, user_id) IN
    /\ served < MaxOps
    /\ served' = served + 1
    /\ db_user # NoUser
    /\ users' = (users \ {db_user}) \cup {[db_user EXCEPT !.is_active = FALSE]}
    /\ UNCHANGED <<nextId, ext, pc, req, resp, pending, res, orphan, race>>

\* DELETE /users/{user_id}: db.delete(db_user); commit().
delete_user_endpoint(user_id) ==
    LET db_user == get_user_by_id(users, user_id) IN
    /\ served < MaxOps
    /\ served' = served + 1
    /\ db_user # NoUser
    /\ users' = users \ {db_user}
    /\ UNCHANGED <<nextId, ext, pc, req, resp, pending, res, orphan, race>>

\* ------------------------------------------------------ the external provider
\* An account registered at the provider by another client: its metadata is
\* whatever that client stored.
ExternalRegister(email, hint, name) ==
    /\ served < MaxOps
    /\ served' = served + 1
    /\ ext[email] = NoAccount
    /\ ext' = [ext EXCEPT ![email] = Account(ExternalId(email), hint, name)]
    /\ UNCHANGED <<users, nextId, pc, req, resp, pending, res, orphan, race>>

\* An account registered at the provider whose user object has no metadata.
ExternalRegisterNoMetadata(email) ==
    /\ served < MaxOps
    /\ served' = served + 1
    /\ ext[email] = NoAccount
    /\ ext' = [ext EXCEPT ![email] = AccountNoMetadata(ExternalId(email))]
    /\ UNCHANGED <<users, nextId, pc, req, resp, pending, res, orphan, race>>

\* ------------------------------------------------------------ specification
Init ==
    /\ users = {}
    /\ nextId = 1
    /\ ext = [e \in Emails |-> NoAccount]
    /\ pc = [p \in Procs |-> "idle"]
    /\ req = [p \in Procs |-> NoRequest]
    /\ resp = [p \in Procs |-> NoResponse]
    /\ pending = [p \in Procs |-> NoUser]
    /\ res = [p \in Procs |-> NoResult]
    /\ orphan = [e \in Emails |-> "no"]
    /\ race = [p \in Procs |-> FALSE]
    /\ served = 0

Next ==
    \/ \E p \in Procs, e \in Emails, n \in Names \cup {None} : StartSignUp(p, e, n)
    \/ \E p \in Procs : SignUpFlush(p)
    \/ \E p \in Procs : SignUpExternal(p)
    \/ \E p \in Procs : SignUpCommit(p)
    \/ \E p \in Procs, e \in Emails : StartSignIn(p, e)
    \/ \E p \in Procs : SignInByEmail(p)
    \/ \E p \in Procs : SignInCreateCheck(p)
    \/ \E p \in Procs : SignInInsert(p)
    \/ \E p \in Procs, e \in Emails : GetCurrentUser(p, e)
    \/ \E p \in Procs, e \in Emails : SignOut(p, e)
    \/ \E p \in Procs, e \in Emails : RefreshToken(p, e)
    \/ \E p \in Procs : Respond(p)
    \/ \E e \in Emails, n \in Names : create_user(e, n)
    \/ \E i \in Ids, d \in UpdateData : update_user(i, d)
    \/ \E i \in Ids : delete_user(i)
    \/ \E i \in Ids : delete_user_endpoint(i)
    \/ \E e \in Emails, h \in {NoId} \cup Ids, n \in Names \cup {None} :
          ExternalRegister(e, h, n)
    \/ \E e \in Emails : ExternalRegisterNoMetadata(e)

Spec == Init /\ [][Next]_vars

\* The service started against a database and a provider that already hold
\* users: user 1 signed up with email "a" and then changed the email to "b"
\* (PUT /users/1), and record 2 was created with email "a" (POST /users/).
InitLinked ==
    /\ users = {User(1, ExternalId("a"), "n", "b", TRUE), User(2, None, "n", "a", TRUE)}
    /\ nextId = 3
    /\ ext = [e \in Emails |-> IF e = "a" THEN Account(ExternalId("a"), 1, "n")
                               ELSE NoAccount]
    /\ pc = [p \in Procs |-> "idle"]
    /\ req = [p \in Procs |-> NoRequest]
    /\ resp = [p \in Procs |-> NoResponse]
    /\ pending = [p \in Procs |-> NoUser]
    /\ res = [p \in Procs |-> NoResult]
    /\ orphan = [e \in Emails |-> "no"]
    /\ race = [p \in Procs |-> FALSE]
    /\ served = 0

SpecLinked == InitLinked /\ [][Next]_vars

\* ------------------------------------------------------------------ claims
Linked(store, uid) == {r \in store : r.supabase_user_id = uid}

WithEmail(store, email) == {r \in store : r.email = email}

SignInStarts(p, e) ==
    /\ pc[p] = "idle"
    /\ req'[p].kind = "signin"
    /\ req'[p].email = e
    /\ resp'[p].user # NoAccount

Returned200(p, user) ==
    /\ pc'[p] = "done"
    /\ res'[p].status = HTTP_200_OK
    /\ res'[p].user = user
    /\ user \in users'

\* C1: in every reachable state no two committed LocalUser rows have the
\* same email, whatever sign_up, sign_in, get_current_user and the /users
\* create, update and delete operations did, in whatever interleaving.
C1_EmailUnique ==
    \A r1, r2 \in users : r1.email = r2.email => r1 = r2

\* A write that would have duplicated an email was attempted and rejected.
C1_Witness ==
    \E p \in Procs :
        /\ pc[p] = "done"
        /\ res[p].detail = "IntegrityError:email"
        /\ WithEmail(users, req[p].email) # {}

\* C2: in every reachable state no external id is the supabase_user_id of
\* two committed LocalUser rows.
C2_ExternalIdUnique ==
    \A r1, r2 \in users :
        (r1.supabase_user_id # None /\ r1.supabase_user_id = r2.supabase_user_id)
            => r1 = r2

\* A link that would have given two rows the same external id was rejected.
C2_Witness ==
    \E p \in Procs :
        /\ pc[p] = "done"
        /\ res[p].detail = "IntegrityError:supabase_user_id"
        /\ Linked(users, ExternalId(req[p].email)) # {}

\* C3: when the external signin succeeds, no row is linked to the external
\* id, and the metadata hint is the id of an existing row with no external
\* id, sign_in commits that row with the external id set, returns it with
\* HTTP 200, and adds no row.
C3_HintLinks ==
    [][\A p \in Procs, e \in Emails :
         (/\ SignInStarts(p, e)
          /\ Linked(users, ext[e].id) = {}
          /\ ext[e].local_user_id # NoId
          /\ get_user_by_id(users, ext[e].local_user_id) # NoUser
          /\ get_user_by_id(users, ext[e].local_user_id).supabase_user_id = None)
         => LET old == get_user_by_id(users, ext[e].local_user_id)
                new == [old EXCEPT !.supabase_user_id = ext[e].id]
            IN /\ users' = (users \ {old}) \cup {new}
               /\ Returned200(p, new)
               /\ res'[p].path = "hint"
               /\ Cardinality(users') = Cardinality(users)]_vars

C3_Witness ==
    \E p \in Procs :
        /\ pc[p] = "done"
        /\ req[p].kind = "signin"
        /\ res[p].status = HTTP_200_OK
        /\ res[p].path = "hint"
        /\ res[p].user \in users
        /\ res[p].user.id = resp[p].user.local_user_id
        /\ res[p].user.supabase_user_id = resp[p].user.id

\* C4: when sign_in has found no row by external id or by hint, and a row
\* with the signin email exists that has no external id, the email step sets
\* that row's external id, returns that row with HTTP 200, and the number of
\* rows is unchanged.
C4_EmailLinks ==
    [][\A p \in Procs :
         (/\ pc[p] = "si_email"
          /\ pc'[p] # "si_email"
          /\ Linked(users, resp[p].user.id) = {}
          /\ get_user_by_email(users, req[p].email) # NoUser
          /\ get_user_by_email(users, req[p].email).supabase_user_id = None)
         => LET old == get_user_by_email(users, req[p].email)
                new == [old EXCEPT !.supabase_user_id = resp[p].user.id]
            IN /\ users' = (users \ {old}) \cup {new}
               /\ Returned200(p, new)
               /\ res'[p].path = "email"
               /\ Cardinality(users') = Cardinality(users)]_vars

C4_Witness ==
    \E p \in Procs :
        /\ pc[p] = "done"
        /\ req[p].kind = "signin"
        /\ res[p].status = HTTP_200_OK
        /\ res[p].path = "email"
        /\ res[p].user \in users
        /\ res[p].user.email = req[p].email
        /\ res[p].user.supabase_user_id = resp[p].user.id

C6_DuplicateSignUp ==
    [][\A p \in Procs :
         (/\ pc[p] = "su_flush"
          /\ pc'[p] # "su_flush"
          /\ \E r \in WithEmail(users, req[p].email) : r.supabase_user_id = None)
         => /\ pc'[p] = "done"
            /\ res'[p].status = HTTP_400_BAD_REQUEST
            /\ res'[p].detail = "IntegrityError:email"
            /\ users' = users
            /\ pending'[p] = NoUser]_vars

C6_Witness ==
    \E p \in Procs :
        /\ pc[p] = "done"
        /\ req[p].kind = "signup"
        /\ res[p].status = HTTP_400_BAD_REQUEST
        /\ res[p].detail = "IntegrityError:email"
        /\ \E r \in WithEmail(users, req[p].email) : r.supabase_user_id = None

\* C7: a POST /signup that went through answers 201; when the provider
\* returned a user and no session the answer has email_confirmation_required
\* true and no tokens, and email_confirmation_required is true exactly when
\* the session is null.
C7_ConfirmationRequired ==
    \A p \in Procs :
        (pc[p] = "done" /\ req[p].kind = "signup" /\ res[p].detail = NoError)
        => /\ res[p].status = HTTP_201_CREATED
           /\ res[p].email_confirmation_required <=> ~resp[p].session
           /\ res[p].tokens <=> resp[p].session

C7_Witness ==
    \E p \in Procs :
        /\ pc[p] = "done"
        /\ req[p].kind = "signup"
        /\ res[p].detail = NoError
        /\ resp[p].user # NoAccount
        /\ ~resp[p].session
        /\ res[p].email_confirmation_required

\* C8: of two sign_up requests for the same email that run concurrently,
\* the one whose insert meets the other's committed row is rejected by the
\* storage layer and ends with the duplicate-email error as HTTP 400, and
\* at most one row with that email is committed.
C8_RacingSignUps ==
    [][\A p \in Procs :
         (/\ pc[p] = "su_flush"
          /\ pc'[p] # "su_flush"
          /\ race[p]
          /\ WithEmail(users, req[p].email) # {})
         => /\ pc'[p] = "done"
            /\ res'[p].status = HTTP_400_BAD_REQUEST
            /\ res'[p].detail = "IntegrityError:email"
            /\ users' = users
            /\ Cardinality(WithEmail(users', req[p].email)) = 1]_vars

C8_Witness ==
    \E p \in Procs, q \in Procs :
        /\ p # q
        /\ pc[p] = "done" /\ pc[q] = "done"
        /\ req[p].kind = "signup" /\ req[q].kind = "signup"
        /\ req[p].email = req[q].email
        /\ race[p]
        /\ res[q].status = HTTP_201_CREATED
        /\ res[p].detail = "IntegrityError:email"

\* C9: of two sign_in requests for the same new email that both reach the
\* step-4 insert, the one whose insert violates the email constraint ends
\* with the duplicate-email error as HTTP 400, and exactly one row with that
\* email exists afterwards.
C9_RacingSignIns ==
    [][\A p \in Procs :
         (/\ pc[p] = "si_insert"
          /\ pc'[p] # "si_insert"
          /\ race[p]
          /\ WithEmail(users, req[p].email) # {})
         => /\ pc'[p] = "done"
            /\ res'[p].status = HTTP_400_BAD_REQUEST
            /\ res'[p].detail = "IntegrityError:email"
            /\ Cardinality(WithEmail(users', req[p].email)) = 1]_vars

C11_Rejected401 ==
    \A p \in Procs :
        (/\ pc[p] = "done"
         /\ req[p].kind \in {"signin", "refresh", "me", "signout"}
         /\ res[p].detail \in {"AuthApiError", "Invalid credentials"})
        => res[p].status = HTTP_401_UNAUTHORIZED

\* C12: sign_in looks up by external id first: when a row linked to the
\* returned external id exists, sign_in returns that row with HTTP 200 and
\* changes no row, whatever the metadata hint and the signin email match;
\* the hint is used only when no row is linked, and the email step is
\* reached only when neither the external id nor the hint found a row.
C12_FastPath ==
    [][\A p \in Procs, e \in Emails :
         SignInStarts(p, e)
         => /\ Linked(users, ext[e].id) # {}
               => /\ users' = users
                  /\ \E r \in Linked(users, ext[e].id) : Returned200(p, r)
                  /\ res'[p].path = "external_id"
            /\ (pc'[p] = "done" /\ res'[p].path = "hint")
               => /\ Linked(users, ext[e].id) = {}
                  /\ ext[e].local_user_id # NoId
            /\ pc'[p] = "si_email"
               => /\ Linked(users, ext[e].id) = {}
                  /\ \/ ext[e].local_user_id = NoId
                     \/ get_user_by_id(users, ext[e].local_user_id) = NoUser]_vars

\* The fast path returned the linked row 1 while the signin email is the
\* email of row 2, which has had it since the start.
C12_Witness ==
    \E p \in Procs :
        /\ pc[p] = "done"
        /\ req[p].kind = "signin"
        /\ res[p].status = HTTP_200_OK
        /\ res[p].path = "external_id"
        /\ res[p].user \in users
        /\ res[p].user.id = 1
        /\ res[p].user.supabase_user_id = resp[p].user.id
        /\ res[p].user.email # req[p].email
        /\ \E r \in users : r.id = 2 /\ r.email = req[p].email

\* C13: when sign_in has found no row by external id, hint or email, it
\* goes on to create the row with the display name of the metadata, or
\* "Unknown" when the metadata has no name, also when the external user has
\* empty or no metadata, and the row created carries that name.
C13_NameOrUnknown ==
    [][\A p \in Procs :
         /\ (/\ pc[p] = "si_email"
             /\ pc'[p] # "si_email"
             /\ get_user_by_email(users, req[p].email) = NoUser)
            => /\ pc'[p] = "si_check"
               /\ req'[p].name = IF resp[p].user.name # None
                                 THEN resp[p].user.name ELSE Unknown
         /\ (/\ pc[p] = "si_insert"
             /\ pc'[p] = "done"
             /\ res'[p].status = HTTP_200_OK)
            => res'[p].user.name = IF resp[p].user.name # None
                                   THEN resp[p].user.name ELSE Unknown]_vars

\* C14: no step of a sign_up, sign_in or get_current_user request changes
\* the external id of a row that has one: a row that was linked keeps its
\* external id for as long as it exists.
C14_ExternalIdStable ==
    [][\A p \in Procs :
         (/\ pc'[p] # pc[p]
          /\ req'[p].kind \in {"signup", "signin", "me"})
         => \A r \in users, r2 \in users' :
               (r.supabase_user_id # None /\ r2.id = r.id)
               => r2.supabase_user_id = r.supabase_user_id]_vars

\* C15: every sign_in that succeeds returns a row whose email is the email
\* signed in with, whatever the metadata hint of the external user is.
C15_ReturnsSameEmail ==
    \A p \in Procs :
        (/\ pc[p] = "done"
         /\ req[p].kind = "signin"
         /\ res[p].status = HTTP_200_OK)
        => res[p].user.email = req[p].email

\* C16: a sign_up that ends in an error (validation, duplicate email at the
\* flush, an exception of the provider's sign_up, a response without a user,
\* a failed commit) ends with HTTP 400 and none of its steps has changed the
\* committed table: the provisional row it had flushed is in no state part
\* of the table and is not pending after the request ended.
C16_FailedSignUpLeavesStore ==
    [][/\ \A p \in Procs :
            pending[p] # NoUser => \A r \in users : r.id # pending[p].id
       /\ \A p \in Procs :
            (/\ pc[p] \in {"idle", "su_flush", "su_ext", "su_commit"}
             /\ pc'[p] # pc[p]
             /\ req'[p].kind = "signup"
             /\ ~(pc'[p] = "done" /\ res'[p].status = HTTP_201_CREATED))
            => /\ users' = users
               /\ pc'[p] = "done"
                  => /\ res'[p].status = HTTP_400_BAD_REQUEST
                     /\ pending'[p] = NoUser
                     /\ \A r \in users' : r.id # pending[p].id]_vars

\* A sign_up failed at its commit, after the flush and the provider call:
\* the serial number of its row is used up and no row has the email.
C16_Witness ==
    \E p \in Procs :
        /\ pc[p] = "done"
        /\ req[p].kind = "signup"
        /\ res[p].status = HTTP_400_BAD_REQUEST
        /\ res[p].detail = "OperationalError"
        /\ resp[p].user.local_user_id # NoId
        /\ resp[p].user.local_user_id < nextId
        /\ get_user_by_id(users, resp[p].user.local_user_id) = NoUser
        /\ WithEmail(users, req[p].email) = {}

====
